---- MODULE Spec2Model ----
(***************************************************************************)
(* A model of the MockkHttp mitmproxy addon (debug_interceptor.py).        *)
(*                                                                         *)
(* Two execution contexts are modelled:                                    *)
(*   - the proxy's event loop, which runs one response() coroutine per     *)
(*     flow; between two awaits a coroutine owns the loop (variable loop), *)
(*   - the control server thread, an HTTPServer that serves one request    *)
(*     at a time (variable req) and interleaves with the loop at every     *)
(*     access to the shared dictionary intercepted_flows and to a flow.    *)
(***************************************************************************)
EXTENDS Integers, Sequences, FiniteSets, TLC

(***************************************************************************)
(* Bounds of the model.                                                    *)
(***************************************************************************)
NumFlows == 2

MaxRequests == 2

Flows == 1..NumFlows

(***************************************************************************)
(* Python values.                                                          *)
(***************************************************************************)
\* A dict is a function; the empty dict is the function of empty domain.
EmptyDict == [k \in {} |-> ""]

\* Python's None where a dict or a string is expected.
PyNone == [None |-> TRUE]

NoneStr == "None"

Has(d, k) == k \in DOMAIN d

\* dict.get(k, default)
Get(d, k, default) == IF k \in DOMAIN d THEN d[k] ELSE default

\* for key, value in new.items(): old[key] = value
UpsertAll(old, new) ==
    [k \in (DOMAIN old) \cup (DOMAIN new) |->
        IF k \in DOMAIN new THEN new[k] ELSE old[k]]

\* JSON values found under "content": a string (its code points) or not.
JStr(chars) == [type |-> "str", chars |-> chars]

JNum == [type |-> "num", chars |-> <<>>]

\* JSON values found under "headers": an object or not.
JObj(m) == [type |-> "object", map |-> m]

JNotObj == [type |-> "str", map |-> EmptyDict]

(***************************************************************************)
(* str.encode('utf-8') and _decode_content.                                *)
(***************************************************************************)
IsSurrogate(c) == c >= 55296 /\ c <= 57343

\* The UTF-8 bytes of one code point.
EncodeChar(c) ==
    IF c < 128 THEN <<c>>
    ELSE IF c < 2048 THEN <<192 + (c \div 64), 128 + (c % 64)>>
    ELSE IF c < 65536
         THEN <<224 + (c \div 4096), 128 + ((c \div 64) % 64), 128 + (c % 64)>>
         ELSE <<240 + (c \div 262144), 128 + ((c \div 4096) % 64),
                128 + ((c \div 64) % 64), 128 + (c % 64)>>

\* str.encode('utf-8') raises UnicodeEncodeError on a lone surrogate.
CanEncode(s) == \A i \in 1..Len(s) : ~IsSurrogate(s[i])

RECURSIVE EncodeUtf8(_)
EncodeUtf8(s) ==
    IF s = <<>> THEN <<>> ELSE EncodeChar(Head(s)) \o EncodeUtf8(Tail(s))

IsCont(b) == b >= 128 /\ b <= 191

\* bytes.decode('utf-8'), strict: [ok, chars].
RECURSIVE DecodeUtf8(_)
DecodeUtf8(b) ==
    IF b = <<>> THEN [ok |-> TRUE, chars |-> <<>>]
    ELSE LET b1 == b[1]
             n  == IF b1 < 128 THEN 1
                   ELSE IF b1 >= 194 /\ b1 <= 223 THEN 2
                   ELSE IF b1 >= 224 /\ b1 <= 239 THEN 3
                   ELSE IF b1 >= 240 /\ b1 <= 244 THEN 4
                   ELSE 0
             wellFormed ==
                 /\ n > 0
                 /\ Len(b) >= n
                 /\ \A i \in 2..n : IsCont(b[i])
                 /\ (b1 = 224 => b[2] >= 160)
                 /\ (b1 = 237 => b[2] <= 159)
                 /\ (b1 = 240 => b[2] >= 144)
                 /\ (b1 = 244 => b[2] <= 143)
             cp == IF n = 1 THEN b1
                   ELSE IF n = 2 THEN (b1 - 192) * 64 + (b[2] - 128)
                   ELSE IF n = 3
                        THEN (b1 - 224) * 4096 + (b[2] - 128) * 64 + (b[3] - 128)
                        ELSE (b1 - 240) * 262144 + (b[2] - 128) * 4096
                             + (b[3] - 128) * 64 + (b[4] - 128)
         IN  IF ~wellFormed THEN [ok |-> FALSE, chars |-> <<>>]
             ELSE LET rest == DecodeUtf8(SubSeq(b, n + 1, Len(b)))
                  IN  IF rest.ok
                      THEN [ok |-> TRUE, chars |-> <<cp>> \o rest.chars]
                      ELSE rest

\* _decode_content: UTF-8, else latin-1 (one code point per byte).
decode_content(content) ==
    IF content = <<>> THEN <<>>
    ELSE IF DecodeUtf8(content).ok THEN DecodeUtf8(content).chars
    ELSE content

(***************************************************************************)
(* Flows, their ids and their upstream responses.                          *)
(***************************************************************************)
IdNames == <<"flow-1", "flow-2", "flow-3", "flow-4">>

\* flow.id: unique per flow.
FlowId(f) == IdNames[f]

\* An id no flow carries.
UnknownId == "flow-x"

FlowIds == {FlowId(f) : f \in Flows}

\* No flow (Python None where a flow is expected).
NoFlow == 0

\* flow.response as the upstream server sent it.
OriginalResponse(f) ==
    [status_code |-> 200,
     headers     |-> ("Content-Type" :> "text/plain") @@ ("X-Flow" :> FlowId(f)),
     content     |-> <<48 + f>>]

Modes == {"recording", "debug", "mockk"}

(***************************************************************************)
(* What the controller may send: resume bodies and mock rules.             *)
(***************************************************************************)
ModStatusHeaders ==
    [status_code |-> 404, headers |-> JObj("X-Mock" :> "1")]

ModContent ==
    [headers |-> JObj("Content-Type" :> "application/json"),
     content |-> JStr(<<233>>)]

\* content is not a string: .encode raises after status and headers were set.
ModBadContent ==
    [status_code |-> 503, headers |-> JObj("X-Mock" :> "2"), content |-> JNum]

\* headers is not a mapping: .items() raises.
ModBadHeaders == [headers |-> JNotObj, content |-> JStr(<<65>>)]

Mutations == {ModStatusHeaders, ModContent, ModBadContent, ModBadHeaders}

\* A mutation whose fields have the types of ModifiedResponse.
WellTyped(m) ==
    /\ (Has(m, "headers") => m["headers"].type = "object")
    /\ (Has(m, "content") =>
            m["content"].type = "str" /\ CanEncode(m["content"].chars))

\* The POST /resume bodies: not JSON, or a JSON object.
InvalidJson == [json |-> FALSE, data |-> EmptyDict]

JsonBody(d) == [json |-> TRUE, data |-> d]

ResumeBodies ==
    {InvalidJson, JsonBody(EmptyDict), JsonBody([flow_id |-> ""])}
    \cup {JsonBody([flow_id |-> i]) : i \in FlowIds}
    \cup {JsonBody([flow_id |-> i, modified_response |-> m]) :
            i \in FlowIds, m \in Mutations}
    \cup {JsonBody([flow_id |-> UnknownId, modified_response |-> ModStatusHeaders])}

RuleStatusHeaders ==
    [rule_id |-> "r1", rule_name |-> "not found", status_code |-> 404,
     headers |-> JObj("X-Mock" :> "1")]

RuleContent ==
    [rule_id |-> "r2", rule_name |-> "json body",
     headers |-> JObj("Content-Type" :> "application/json"),
     content |-> JStr(<<233>>)]

\* A rule without rule_name and rule_id.
RuleAnonymous == [status_code |-> 201]

\* A rule whose content is not a string.
RuleBadContent ==
    [rule_id |-> "r4", rule_name |-> "bad", status_code |-> 503, content |-> JNum]

Rules == {RuleStatusHeaders, RuleContent, RuleAnonymous, RuleBadContent}

\* What the plugin's /mock-match gives: a 200 with a JSON body (a rule or
\* an empty object), another status, or a failure (unreachable, timeout,
\* a body that is not JSON).
PluginAnswers ==
    {[outcome |-> "ok", data |-> r] : r \in Rules \cup {EmptyDict}}
    \cup {[outcome |-> "non200", data |-> EmptyDict],
          [outcome |-> "error", data |-> EmptyDict]}

\* The GET targets that start with /mock-match: without parameters, without
\* url, with a blank method, and with both parameters.
MockMatchTargets ==
    {"/mock-match", "/mock-match?method=GET", "/mock-match?method=&url=u",
     "/mock-match?method=GET&url=u"}

\* parse_qs(urlparse(path).query) on these targets, each value list by its
\* first element: a parameter with a blank value is left out.
parse_qs(path) ==
    CASE path = "/mock-match?method=GET&url=u" -> [method |-> "GET", url |-> "u"]
      [] path = "/mock-match?method=GET" -> [method |-> "GET"]
      [] path = "/mock-match?method=&url=u" -> [url |-> "u"]
      [] OTHER -> EmptyDict

\* How a POST /intercept to the plugin ends.
SendOutcomes == {"ok", "non200", "URLError", "error"}

(***************************************************************************)
(* State.                                                                  *)
(***************************************************************************)
VARIABLES
    mode,               \* DebugInterceptor.mode
    server,             \* the control server thread
    loop,               \* the flow whose coroutine runs on the event loop
    pc,                 \* where each flow's response() hook is
    response,           \* flow.response
    metadata,           \* flow.metadata
    intercepted,        \* flow.intercepted
    resume_event,       \* the flow's resume event
    intercepted_flows,  \* the global dictionary id -> flow
    mock_data,          \* response()'s local mock_data
    req,                \* the request the control server is handling
    nreq,               \* requests accepted so far
    published,          \* snapshots handed to _send_request, per flow
    resume_count,       \* times Flow.resume() released the flow
    acked               \* ids for which /resume answered "resumed"

vars == <<mode, server, loop, pc, response, metadata, intercepted,
          resume_event, intercepted_flows, mock_data, req, nreq, published, resume_count, acked>>

flowVars == <<pc, response, metadata, intercepted, resume_event, mock_data,
              published, resume_count>>

NoResponse == [status_code |-> 0, headers |-> EmptyDict, content |-> <<>>]

\* The control server between two requests.
Idle ==
    [pc |-> "idle", path |-> "", body |-> InvalidJson, flow |-> NoFlow,
     pre |-> NoResponse, code |-> 0, count |-> 0, keys |-> {},
     plugin |-> [outcome |-> "none", data |-> EmptyDict], reply |-> EmptyDict]

\* DebugInterceptor.__init__ and the module's globals.
Init ==
    /\ mode = "recording"
    /\ server = "unstarted"
    /\ loop = NoFlow
    /\ pc = [f \in Flows |-> "start"]
    /\ response = [f \in Flows |-> OriginalResponse(f)]
    /\ metadata = [f \in Flows |-> EmptyDict]
    /\ intercepted = [f \in Flows |-> FALSE]
    /\ resume_event = [f \in Flows |-> "none"]
    /\ intercepted_flows = EmptyDict
    /\ mock_data = [f \in Flows |-> PyNone]
    /\ req = Idle
    /\ nreq = 0
    /\ published = [f \in Flows |-> <<>>]
    /\ resume_count = [f \in Flows |-> 0]
    /\ acked = {}

(***************************************************************************)
(* Start-up.                                                               *)
(***************************************************************************)
\* running(): reads the options and starts the server thread.
running(m) ==
    /\ server = "unstarted"
    /\ mode' = m
    /\ server' = "starting"
    /\ UNCHANGED <<loop, flowVars, intercepted_flows, req, nreq, acked>>

\* run_server(): binds the port and serves, or logs the OSError and ends.
run_server(bound) ==
    /\ server = "starting"
    /\ server' = IF bound THEN "serving" ELSE "failed"
    /\ UNCHANGED <<mode, loop, flowVars, intercepted_flows, req, nreq, acked>>

\* The proxy calls the hooks once running() has returned.
Started == server # "unstarted"

\* Flows are numbered in the order in which their response hooks start.
Arrives(f) ==
    /\ Started
    /\ pc[f] = "start"
    /\ \A g \in Flows : g < f => pc[g] # "start"

(***************************************************************************)
(* mitmproxy's Flow: intercept(), resume(), wait_for_resume().             *)
(***************************************************************************)
\* flow.intercept(): marks the flow; an existing event is cleared.
Flow_intercept(f) ==
    /\ intercepted' = [intercepted EXCEPT ![f] = TRUE]
    /\ resume_event' =
           [resume_event EXCEPT
              ![f] = IF ~intercepted[f] /\ @ = "set" THEN "clear" ELSE @]

\* A resume that unmarks the flow but forgets to set the event.
Flow_resume_unsignalled(f) ==
    IF intercepted[f]
    THEN /\ intercepted' = [intercepted EXCEPT ![f] = FALSE]
         /\ resume_count' = [resume_count EXCEPT ![f] = @ + 1]
         /\ UNCHANGED resume_event
    ELSE UNCHANGED <<intercepted, resume_event, resume_count>>

\* flow.resume(): nothing unless the flow is intercepted; else unmarks it
\* and sets the event a waiter created.
Flow_resume(f) ==
    IF intercepted[f]
    THEN /\ intercepted' = [intercepted EXCEPT ![f] = FALSE]
         /\ resume_event' =
                [resume_event EXCEPT ![f] = IF @ = "none" THEN @ ELSE "set"]
         /\ resume_count' = [resume_count EXCEPT ![f] = @ + 1]
    ELSE UNCHANGED <<intercepted, resume_event, resume_count>>

\* A wait that gives up at once (a timeout of zero).
Flow_never_waits(f) == FALSE

\* A wait that does not look at the flow's mark and waits in any case.
Flow_always_waits(f) == TRUE

\* await flow.wait_for_resume() up to its await: TRUE when the caller has to
\* wait (the flow is intercepted), FALSE when it returns at once.
Flow_must_wait(f) == intercepted[f]

(***************************************************************************)
(* PluginClient: send_to_plugin, _send_request, check_for_mock_rule.       *)
(***************************************************************************)
\* A payload that says paused whatever the caller asked for.
Snapshot_paused(f, pause) ==
    [flow_id        |-> FlowId(f),
     paused         |-> TRUE,
     status_code    |-> response[f].status_code,
     headers        |-> response[f].headers,
     content        |-> decode_content(response[f].content),
     mock_applied   |-> Get(metadata[f], "mock_applied", FALSE),
     mock_rule_name |-> Get(metadata[f], "mock_rule_name", NoneStr),
     mock_rule_id   |-> Get(metadata[f], "mock_rule_id", NoneStr)]

\* The payload send_to_plugin builds.
Snapshot(f, pause) ==
    [flow_id        |-> FlowId(f),
     paused         |-> pause,
     status_code    |-> response[f].status_code,
     headers        |-> response[f].headers,
     content        |-> decode_content(response[f].content),
     mock_applied   |-> Get(metadata[f], "mock_applied", FALSE),
     mock_rule_name |-> Get(metadata[f], "mock_rule_name", NoneStr),
     mock_rule_id   |-> Get(metadata[f], "mock_rule_id", NoneStr)]

\* send_to_plugin up to its await: builds the payload and hands the request
\* to the executor.
send_to_plugin(f, pause) ==
    /\ published' = [published EXCEPT ![f] = Append(@, Snapshot(f, pause))]
    /\ pc' = [pc EXCEPT ![f] = "sending"]

\* A publish whose failure leaves the hook as an exception.
send_request_raising(f, outcome) ==
    /\ pc[f] = "sending"
    /\ pc' = [pc EXCEPT ![f] = IF outcome = "ok" THEN "sent" ELSE "raised"]
    /\ UNCHANGED <<mode, server, loop, response, metadata, intercepted,
                   resume_event, intercepted_flows, mock_data, req, nreq,
                   published, resume_count, acked>>

\* _send_request on an executor thread: every outcome is logged and dropped
\* (a URLError here, anything else in send_to_plugin's except); pc tells
\* whether the plugin got the snapshot until the coroutine goes on.
send_request(f, outcome) ==
    /\ pc[f] = "sending"
    /\ pc' = [pc EXCEPT ![f] = IF outcome = "ok" THEN "sent" ELSE "unsent"]
    /\ UNCHANGED <<mode, server, loop, response, metadata, intercepted,
                   resume_event, intercepted_flows, mock_data, req, nreq,
                   published, resume_count, acked>>

\* _query_plugin_for_mock: the parsed body of a 200 when it is truthy.
query_plugin_for_mock(answer) ==
    IF answer.outcome = "ok" /\ answer.data # EmptyDict
    THEN answer.data
    ELSE PyNone

(***************************************************************************)
(* InterceptionCoordinator: DebugInterceptor.response.                     *)
(***************************************************************************)
\* recording: send_to_plugin(flow, pause=False).
response_recording(f) ==
    /\ mode = "recording"
    /\ Arrives(f) /\ loop = NoFlow
    /\ send_to_plugin(f, FALSE)
    /\ UNCHANGED <<mode, server, loop, response, metadata, intercepted,
                   resume_event, intercepted_flows, mock_data, req, nreq,
                   resume_count, acked>>

\* recording and mockk: the hook returns once send_to_plugin has.
response_return(f) ==
    /\ mode \in {"recording", "mockk"}
    /\ pc[f] \in {"sent", "unsent"} /\ loop = NoFlow
    /\ pc' = [pc EXCEPT ![f] = "done"]
    /\ UNCHANGED <<mode, server, loop, response, metadata, intercepted,
                   resume_event, intercepted_flows, mock_data, req, nreq,
                   published, resume_count, acked>>

\* debug, step 1: flow.intercept().
response_debug_intercept(f) ==
    /\ mode = "debug"
    /\ Arrives(f) /\ loop = NoFlow
    /\ loop' = f
    /\ Flow_intercept(f)
    /\ pc' = [pc EXCEPT ![f] = "insert"]
    /\ UNCHANGED <<mode, server, response, metadata, intercepted_flows,
                   mock_data, req, nreq, published,
                   resume_count, acked>>

\* An insertion that is forgotten.
put_forgotten(reg, id, f) == reg

\* intercepted_flows[flow.id] = flow
put(reg, id, f) == (id :> f) @@ reg

\* debug, step 2: the reference goes into the global dictionary.
response_debug_insert(f) ==
    /\ pc[f] = "insert" /\ loop = f
    /\ intercepted_flows' = put(intercepted_flows, FlowId(f), f)
    /\ pc' = [pc EXCEPT ![f] = "publish"]
    /\ UNCHANGED <<mode, server, loop, response, metadata, intercepted,
                   resume_event, mock_data, req, nreq, published, resume_count, acked>>

\* debug, step 3: send_to_plugin(flow, pause=True).
response_debug_publish(f) ==
    /\ mode = "debug"
    /\ pc[f] = "publish" /\ loop = f
    /\ send_to_plugin(f, TRUE)
    /\ loop' = NoFlow
    /\ UNCHANGED <<mode, server, response, metadata, intercepted,
                   resume_event, intercepted_flows, mock_data, req, nreq,
                   resume_count, acked>>

\* A wait that blocks the thread of the event loop instead of yielding.
response_debug_wait_blocking(f) ==
    /\ mode = "debug"
    /\ pc[f] \in {"sent", "unsent"} /\ loop = NoFlow
    /\ IF Flow_must_wait(f)
       THEN /\ resume_event' =
                   [resume_event EXCEPT ![f] = IF @ = "none" THEN "clear" ELSE @]
            /\ pc' = [pc EXCEPT ![f] = "waiting"]
            /\ loop' = f
       ELSE /\ pc' = [pc EXCEPT ![f] = "cleanup"]
            /\ loop' = f
            /\ UNCHANGED resume_event
    /\ UNCHANGED <<mode, server, response, metadata, intercepted,
                   intercepted_flows, mock_data, req, nreq, published, resume_count, acked>>

\* debug, step 4: await flow.wait_for_resume().
response_debug_wait(f) ==
    /\ mode = "debug"
    /\ pc[f] \in {"sent", "unsent"} /\ loop = NoFlow
    /\ IF Flow_must_wait(f)
       THEN /\ resume_event' =
                   [resume_event EXCEPT ![f] = IF @ = "none" THEN "clear" ELSE @]
            /\ pc' = [pc EXCEPT ![f] = "waiting"]
            /\ loop' = NoFlow
       ELSE /\ pc' = [pc EXCEPT ![f] = "cleanup"]
            /\ loop' = f
            /\ UNCHANGED resume_event
    /\ UNCHANGED <<mode, server, response, metadata, intercepted,
                   intercepted_flows, mock_data, req, nreq, published, resume_count, acked>>

\* debug: the event is set and the loop runs the waiting coroutine again.
response_debug_wake(f) ==
    /\ pc[f] = "waiting" /\ loop = NoFlow
    /\ resume_event[f] = "set"
    /\ pc' = [pc EXCEPT ![f] = "cleanup"]
    /\ loop' = f
    /\ UNCHANGED <<mode, server, response, metadata, intercepted,
                   resume_event, intercepted_flows, mock_data, req, nreq,
                   published, resume_count, acked>>

\* A clean-up that forgets the deletion.
remove_nothing(reg, id) == reg

\* if id in reg: del reg[id]
remove(reg, id) == [k \in (DOMAIN reg) \ {id} |-> reg[k]]

\* debug, step 5: clean up and return.
response_debug_cleanup(f) ==
    /\ pc[f] = "cleanup" /\ loop = f
    /\ intercepted_flows' = remove(intercepted_flows, FlowId(f))
    /\ pc' = [pc EXCEPT ![f] = "done"]
    /\ loop' = NoFlow
    /\ UNCHANGED <<mode, server, response, metadata, intercepted,
                   resume_event, mock_data, req, nreq, published, resume_count, acked>>

(***************************************************************************)
(* mockk mode.                                                             *)
(***************************************************************************)
\* check_for_mock_rule up to its await: builds the query and hands it to the
\* executor; an exception while building it gives None at once.
check_for_mock_rule(f, built) ==
    /\ mode = "mockk"
    /\ Arrives(f) /\ loop = NoFlow
    /\ pc' = [pc EXCEPT ![f] = IF built THEN "querying" ELSE "queried"]
    /\ UNCHANGED <<mode, server, loop, response, metadata, intercepted,
                   resume_event, intercepted_flows, mock_data, req, nreq,
                   published, resume_count, acked>>

\* _query_plugin_for_mock on an executor thread.
query_plugin(f, answer) ==
    /\ pc[f] = "querying"
    /\ mock_data' = [mock_data EXCEPT ![f] = query_plugin_for_mock(answer)]
    /\ pc' = [pc EXCEPT ![f] = "queried"]
    /\ UNCHANGED <<mode, server, loop, response, metadata, intercepted,
                   resume_event, intercepted_flows, req, nreq, published, resume_count, acked>>

\* A rule application that replaces the whole header set.
mock_response_replace(r, rule) ==
    LET s1 == IF Has(rule, "status_code")
              THEN [r EXCEPT !.status_code = rule["status_code"]]
              ELSE r
        s2 == IF Has(rule, "headers") /\ rule["headers"].type = "object"
              THEN [s1 EXCEPT !.headers = rule["headers"].map]
              ELSE s1
        headersRaise == Has(rule, "headers") /\ rule["headers"].type # "object"
        s3 == IF /\ ~headersRaise
                 /\ Has(rule, "content")
                 /\ rule["content"].type = "str"
                 /\ CanEncode(rule["content"].chars)
              THEN [s2 EXCEPT !.content = EncodeUtf8(rule["content"].chars)]
              ELSE s2
    IN  s3

\* The response after the rule's fields were applied in the order status,
\* headers, content, up to the first statement that raises.
mock_response(r, rule) ==
    LET s1 == IF Has(rule, "status_code")
              THEN [r EXCEPT !.status_code = rule["status_code"]]
              ELSE r
        s2 == IF Has(rule, "headers") /\ rule["headers"].type = "object"
              THEN [s1 EXCEPT !.headers = UpsertAll(@, rule["headers"].map)]
              ELSE s1
        headersRaise == Has(rule, "headers") /\ rule["headers"].type # "object"
        s3 == IF /\ ~headersRaise
                 /\ Has(rule, "content")
                 /\ rule["content"].type = "str"
                 /\ CanEncode(rule["content"].chars)
              THEN [s2 EXCEPT !.content = EncodeUtf8(rule["content"].chars)]
              ELSE s2
    IN  s3

\* Whether applying the rule raises (headers.items() or content.encode()).
mock_raises(rule) ==
    \/ Has(rule, "headers") /\ rule["headers"].type # "object"
    \/ /\ Has(rule, "content")
       /\ ~(rule["content"].type = "str" /\ CanEncode(rule["content"].chars))

\* flow.metadata after the rule was applied.
mock_metadata(md, rule) ==
    (("mock_applied" :> TRUE)
        @@ ("mock_rule_name" :> Get(rule, "rule_name", "Unknown"))
        @@ ("mock_rule_id" :> Get(rule, "rule_id", "")))
    @@ md

\* mockk: "if mock_data:" and the application of the rule. An exception
\* leaves response() (the proxy logs it) before send_to_plugin is reached.
response_mockk_apply(f) ==
    /\ mode = "mockk"
    /\ pc[f] = "queried" /\ loop = NoFlow
    /\ IF mock_data[f] = PyNone
       THEN /\ pc' = [pc EXCEPT ![f] = "publish"]
            /\ loop' = f
            /\ UNCHANGED <<response, metadata>>
       ELSE /\ response' =
                   [response EXCEPT ![f] = mock_response(@, mock_data[f])]
            /\ IF mock_raises(mock_data[f])
               THEN /\ pc' = [pc EXCEPT ![f] = "raised"]
                    /\ loop' = NoFlow
                    /\ UNCHANGED metadata
               ELSE /\ pc' = [pc EXCEPT ![f] = "publish"]
                    /\ loop' = f
                    /\ metadata' =
                           [metadata EXCEPT ![f] = mock_metadata(@, mock_data[f])]
    /\ UNCHANGED <<mode, server, intercepted, resume_event, intercepted_flows,
                   mock_data, req, nreq, published,
                   resume_count, acked>>

\* mockk: send_to_plugin(flow, pause=False), with or without a mock applied.
response_mockk_publish(f) ==
    /\ mode = "mockk"
    /\ pc[f] = "publish" /\ loop = f
    /\ send_to_plugin(f, FALSE)
    /\ loop' = NoFlow
    /\ UNCHANGED <<mode, server, response, metadata, intercepted,
                   resume_event, intercepted_flows, mock_data, req, nreq,
                   resume_count, acked>>

(***************************************************************************)
(* ControlServer: ControlHTTPHandler.                                      *)
(***************************************************************************)
\* The handler has its answer: send_response / send_error with this code.
Answer(code) == [req EXCEPT !.pc = "respond", !.code = code]

\* A flow_id that falls back on a pending id when the body names none.
get_flow_id_or_pending(data) ==
    IF Has(data, "flow_id") /\ data["flow_id"] # "" THEN data["flow_id"]
    ELSE IF DOMAIN intercepted_flows = {} THEN ""
    ELSE CHOOSE k \in DOMAIN intercepted_flows : TRUE

\* flow_id = data.get('flow_id')
get_flow_id(data) == Get(data, "flow_id", "")

\* The flow_id of the request being handled.
RequestId == get_flow_id(req.body.data)

\* data['modified_response']
Mod == req.body.data["modified_response"]

\* The server thread takes the next request.
Accept(path, body) ==
    /\ server = "serving"
    /\ req.pc = "idle"
    /\ nreq < MaxRequests
    /\ nreq' = nreq + 1
    /\ UNCHANGED <<mode, server, loop, flowVars, intercepted_flows, acked>>

\* do_POST; for /resume, handle_resume up to "if not flow_id": a body that
\* is not JSON raises (500), a missing or empty flow_id is a 400.
do_POST(path, body) ==
    /\ Accept(path, body)
    /\ LET r == [Idle EXCEPT !.path = path, !.body = body]
       IN  req' =
             IF path # "/resume"
             THEN [Idle EXCEPT !.path = path, !.pc = "respond", !.code = 404]
             ELSE IF ~body.json THEN [r EXCEPT !.pc = "respond", !.code = 500]
             ELSE IF get_flow_id(body.data) = ""
                  THEN [r EXCEPT !.pc = "respond", !.code = 400]
                  ELSE [r EXCEPT !.pc = "check"]

\* do_GET: /status, /mock-match..., or 404; for /mock-match,
\* handle_mock_match up to "if not method or not url" (400).
do_GET(path) ==
    /\ Accept(path, InvalidJson)
    /\ LET r == [Idle EXCEPT !.path = path]
           method == Get(parse_qs(path), "method", "")
           url    == Get(parse_qs(path), "url", "")
       IN  req' = IF path = "/status"
                  THEN [r EXCEPT !.pc = "status_count"]
                  ELSE IF path \in MockMatchTargets
                  THEN IF method = "" \/ url = ""
                       THEN [r EXCEPT !.pc = "respond", !.code = 400]
                       ELSE [r EXCEPT !.pc = "mock_query"]
                  ELSE [r EXCEPT !.pc = "respond", !.code = 404]

\* An answer that passes a failure to reach the plugin on as a server error.
mock_match_propagate(answer) ==
    IF answer.outcome = "ok" THEN [code |-> 200, reply |-> answer.data]
    ELSE IF answer.outcome = "non200" THEN [code |-> 404, reply |-> EmptyDict]
    ELSE [code |-> 500, reply |-> EmptyDict]

\* handle_mock_match's answer: the plugin's body on a 200, else 404 with {}
\* (the else branch, or the bare except around urlopen).
mock_match(answer) ==
    IF answer.outcome = "ok" THEN [code |-> 200, reply |-> answer.data]
    ELSE [code |-> 404, reply |-> EmptyDict]

\* handle_mock_match: urlopen on the plugin's /mock-match, and the answer.
handle_mock_match(answer) ==
    /\ req.pc = "mock_query"
    /\ req' = [Answer(mock_match(answer).code) EXCEPT
                 !.plugin = answer, !.reply = mock_match(answer).reply]
    /\ UNCHANGED <<mode, server, loop, flowVars, intercepted_flows, nreq, acked>>

\* A membership test that only asks whether anything is pending.
contains_any(reg, id) == DOMAIN reg # {}

\* flow_id in intercepted_flows
contains(reg, id) == id \in DOMAIN reg

\* handle_resume: "if flow_id not in intercepted_flows" (404).
handle_resume_check ==
    /\ req.pc = "check"
    /\ req' = IF contains(intercepted_flows, RequestId)
              THEN [req EXCEPT !.pc = "lookup"]
              ELSE Answer(404)
    /\ UNCHANGED <<mode, server, loop, flowVars, intercepted_flows, nreq, acked>>

\* A lookup that takes whichever pending flow comes first.
get_any(reg, id) == reg[CHOOSE k \in DOMAIN reg : TRUE]

\* intercepted_flows[flow_id]
get(reg, id) == reg[id]

\* handle_resume: "flow = intercepted_flows[flow_id]"; a KeyError is a 500.
handle_resume_lookup ==
    /\ req.pc = "lookup"
    /\ req' =
         IF RequestId \in DOMAIN intercepted_flows
         THEN [req EXCEPT
                 !.flow = get(intercepted_flows, RequestId),
                 !.pre  = response[get(intercepted_flows, RequestId)],
                 !.pc   = IF Has(req.body.data, "modified_response")
                          THEN "status" ELSE "resume"]
         ELSE Answer(500)
    /\ UNCHANGED <<mode, server, loop, flowVars, intercepted_flows, nreq, acked>>

\* if 'status_code' in mod: flow.response.status_code = mod['status_code']
modify_status(r, mod) ==
    IF Has(mod, "status_code")
    THEN [r EXCEPT !.status_code = mod["status_code"]]
    ELSE r

handle_resume_status ==
    /\ req.pc = "status"
    /\ response' = [response EXCEPT ![req.flow] = modify_status(@, Mod)]
    /\ req' = [req EXCEPT !.pc = "headers"]
    /\ UNCHANGED <<mode, server, loop, pc, metadata, intercepted,
                   resume_event, intercepted_flows, mock_data, nreq,
                   published, resume_count, acked>>

\* A header mutation that replaces the whole header set.
modify_headers_replace(r, mod) ==
    IF Has(mod, "headers")
    THEN [r EXCEPT !.headers = mod["headers"].map]
    ELSE r

\* if 'headers' in mod: for key, value in mod['headers'].items(): ...
modify_headers(r, mod) ==
    IF Has(mod, "headers")
    THEN [r EXCEPT !.headers = UpsertAll(@, mod["headers"].map)]
    ELSE r

\* mod['headers'].items() raises when headers is not a mapping.
headers_raise(mod) == Has(mod, "headers") /\ mod["headers"].type # "object"

handle_resume_headers ==
    /\ req.pc = "headers"
    /\ IF headers_raise(Mod)
       THEN /\ req' = Answer(500)
            /\ UNCHANGED response
       ELSE /\ response' = [response EXCEPT ![req.flow] = modify_headers(@, Mod)]
            /\ req' = [req EXCEPT !.pc = "content"]
    /\ UNCHANGED <<mode, server, loop, pc, metadata, intercepted,
                   resume_event, intercepted_flows, mock_data, nreq,
                   published, resume_count, acked>>

\* if 'content' in mod: flow.response.content = mod['content'].encode('utf-8')
modify_content(r, mod) ==
    IF Has(mod, "content")
    THEN [r EXCEPT !.content = EncodeUtf8(mod["content"].chars)]
    ELSE r

\* .encode raises on a value that is not a string, or cannot be encoded.
content_raise(mod) ==
    /\ Has(mod, "content")
    /\ ~(mod["content"].type = "str" /\ CanEncode(mod["content"].chars))

handle_resume_content ==
    /\ req.pc = "content"
    /\ IF content_raise(Mod)
       THEN /\ req' = Answer(500)
            /\ UNCHANGED response
       ELSE /\ response' = [response EXCEPT ![req.flow] = modify_content(@, Mod)]
            /\ req' = [req EXCEPT !.pc = "resume"]
    /\ UNCHANGED <<mode, server, loop, pc, metadata, intercepted,
                   resume_event, intercepted_flows, mock_data, nreq,
                   published, resume_count, acked>>

\* handle_resume: flow.resume(), then the answer {status: resumed}.
handle_resume_resume ==
    /\ req.pc = "resume"
    /\ Flow_resume(req.flow)
    /\ req' = Answer(200)
    /\ UNCHANGED <<mode, server, loop, pc, response, metadata,
                   intercepted_flows, mock_data, nreq, published, acked>>

\* len(intercepted_flows)
size(reg) == Cardinality(DOMAIN reg)

\* list(intercepted_flows.keys())
keys(reg) == DOMAIN reg

\* handle_status: 'intercepted_count': len(intercepted_flows)
handle_status_count ==
    /\ req.pc = "status_count"
    /\ req' = [req EXCEPT !.count = size(intercepted_flows), !.pc = "status_keys"]
    /\ UNCHANGED <<mode, server, loop, flowVars, intercepted_flows, nreq, acked>>

\* handle_status: 'intercepted_flows': list(intercepted_flows.keys())
handle_status_keys ==
    /\ req.pc = "status_keys"
    /\ req' = [Answer(200) EXCEPT !.keys = keys(intercepted_flows)]
    /\ UNCHANGED <<mode, server, loop, flowVars, intercepted_flows, nreq, acked>>

\* The answer is written to the controller; the server takes the next request.
respond ==
    /\ req.pc = "respond"
    /\ acked' = IF req.path = "/resume" /\ req.code = 200
                THEN acked \cup {RequestId}
                ELSE acked
    /\ req' = Idle
    /\ UNCHANGED <<mode, server, loop, flowVars, intercepted_flows, nreq>>

(***************************************************************************)
(* The specification.                                                      *)
(***************************************************************************)
Next ==
    \/ \E m \in Modes : running(m)
    \/ \E bound \in BOOLEAN : run_server(bound)
    \/ \E f \in Flows : response_recording(f)
    \/ \E f \in Flows : response_return(f)
    \/ \E f \in Flows : response_debug_intercept(f)
    \/ \E f \in Flows : response_debug_insert(f)
    \/ \E f \in Flows : response_debug_publish(f)
    \/ \E f \in Flows : response_debug_wait(f)
    \/ \E f \in Flows : response_debug_wake(f)
    \/ \E f \in Flows : response_debug_cleanup(f)
    \/ \E f \in Flows, built \in BOOLEAN : check_for_mock_rule(f, built)
    \/ \E f \in Flows, answer \in PluginAnswers : query_plugin(f, answer)
    \/ \E f \in Flows : response_mockk_apply(f)
    \/ \E f \in Flows : response_mockk_publish(f)
    \/ \E f \in Flows, outcome \in SendOutcomes : send_request(f, outcome)
    \/ \E path \in {"/resume", "/other"}, body \in ResumeBodies : do_POST(path, body)
    \/ \E path \in {"/status", "/other"} \cup MockMatchTargets : do_GET(path)
    \/ \E answer \in PluginAnswers : handle_mock_match(answer)
    \/ handle_resume_check
    \/ handle_resume_lookup
    \/ handle_resume_status
    \/ handle_resume_headers
    \/ handle_resume_content
    \/ handle_resume_resume
    \/ handle_status_count
    \/ handle_status_keys
    \/ respond

Spec == Init /\ [][Next]_vars

\* The event loop runs every coroutine that is ready, and a request handed
\* to the executor ends (urlopen has a timeout).
Fairness ==
    \A f \in Flows :
        /\ WF_vars(response_debug_insert(f))
        /\ WF_vars(response_debug_publish(f))
        /\ WF_vars(\E outcome \in SendOutcomes : send_request(f, outcome))
        /\ WF_vars(response_debug_wait(f))
        /\ WF_vars(response_debug_wake(f))
        /\ WF_vars(response_debug_cleanup(f))

FairSpec == Spec /\ Fairness

(***************************************************************************)
(* The registry's put on its own: the hooks of a debug session insert      *)
(* their flows into a registry that may hold any entries, also an entry    *)
(* under the id being inserted.                                            *)
(***************************************************************************)
RegistryIds == FlowIds \cup {UnknownId}

Registries == UNION {[d -> Flows] : d \in SUBSET RegistryIds}

PutInit ==
    /\ mode = "debug"
    /\ server = "serving"
    /\ loop = NoFlow
    /\ pc = [f \in Flows |-> "start"]
    /\ response = [f \in Flows |-> OriginalResponse(f)]
    /\ metadata = [f \in Flows |-> EmptyDict]
    /\ intercepted = [f \in Flows |-> FALSE]
    /\ resume_event = [f \in Flows |-> "none"]
    /\ intercepted_flows \in Registries
    /\ mock_data = [f \in Flows |-> PyNone]
    /\ req = Idle
    /\ nreq = 0
    /\ published = [f \in Flows |-> <<>>]
    /\ resume_count = [f \in Flows |-> 0]
    /\ acked = {}

PutNext ==
    \/ \E f \in Flows : response_debug_intercept(f)
    \/ \E f \in Flows : response_debug_insert(f)
    \/ \E f \in Flows : response_debug_publish(f)
    \/ \E f \in Flows, outcome \in SendOutcomes : send_request(f, outcome)
    \/ \E f \in Flows : response_debug_wait(f)

PutSpec == PutInit /\ [][PutNext]_vars

(***************************************************************************)
(* Properties.                                                             *)
(***************************************************************************)
\* The flow that carries an id.
FlowOf(id) == CHOOSE f \in Flows : FlowId(f) = id

\* The ids response() has put into intercepted_flows at some time.
EverInserted ==
    {FlowId(f) : f \in {g \in Flows : mode = "debug" /\ pc[g] \notin {"start", "insert"}}}

\* A step of the control server on a /resume request, and that request's id.
ResumeStep == req' # req /\ (IF req.pc = "idle" THEN req' ELSE req).path = "/resume"

StepId ==
    Get((IF req.pc = "idle" THEN req' ELSE req).body.data, "flow_id", "")

\* What a flow is to the resume machinery.
FlowState(f) ==
    <<pc[f], response[f], metadata[f], intercepted[f], resume_event[f],
      resume_count[f]>>

\* C1: with several transactions suspended under distinct ids, resume
\* requests in any order release each unit at most once, a request answered
\* "resumed" has released exactly the unit that carries its id, and a
\* resume for one id never releases or changes the unit of another id.
C1_ResumeNoCrossTalk ==
    /\ [](\A f \in Flows : resume_count[f] <= 1)
    /\ [](req.flow # NoFlow => FlowId(req.flow) = RequestId)
    /\ []((req.pc = "respond" /\ req.path = "/resume" /\ req.code = 200)
            => resume_count[FlowOf(RequestId)] = 1)
    /\ [][ResumeStep =>
            \A b \in Flows : FlowId(b) # StepId => FlowState(b)' = FlowState(b)]_vars

\* Both flows wait, the second was resumed first and the first still waits,
\* untouched.
C1_Witness ==
    /\ mode = "debug"
    /\ pc[1] = "waiting" /\ pc[2] = "waiting"
    /\ resume_count[2] = 1 /\ resume_event[2] = "set"
    /\ resume_count[1] = 0 /\ intercepted[1]
    /\ response[1] = OriginalResponse(1)
    /\ req.pc = "respond" /\ req.code = 200 /\ RequestId = FlowId(2)
    /\ Has(req.body.data, "modified_response")

\* C2: a resume answered "resumed" has overwritten exactly the response
\* fields its mutation holds (status_code, content, each listed header as a
\* per-key upsert) and left the other fields and headers as they were; with
\* no modified_response the response is unchanged. A request that found its
\* flow is refused only when its mutation is ill-typed.
C2_ResumePartialUpdate ==
    /\ (req.pc = "respond" /\ req.path = "/resume" /\ req.code = 200) =>
         LET d   == req.body.data
             now == response[req.flow]
             was == req.pre
         IN  IF ~Has(d, "modified_response") THEN now = was
             ELSE LET m == d["modified_response"]
                      h == IF Has(m, "headers") THEN m["headers"].map ELSE EmptyDict
                  IN  /\ now.status_code =
                             IF Has(m, "status_code") THEN m["status_code"]
                             ELSE was.status_code
                      /\ DOMAIN now.headers = (DOMAIN was.headers) \cup (DOMAIN h)
                      /\ \A k \in DOMAIN now.headers :
                             now.headers[k] =
                                 IF k \in DOMAIN h THEN h[k] ELSE was.headers[k]
                      /\ now.content =
                             IF Has(m, "content")
                             THEN EncodeUtf8(m["content"].chars)
                             ELSE was.content
    /\ (req.pc = "respond" /\ req.path = "/resume" /\ req.flow # NoFlow
           /\ req.code # 200) =>
         /\ Has(req.body.data, "modified_response")
         /\ ~WellTyped(Mod)

\* A waiting flow was resumed with a new Content-Type and body: both are
\* overwritten, status and the X-Flow header are kept.
C2_Witness ==
    /\ req.pc = "respond" /\ req.path = "/resume" /\ req.code = 200
    /\ req.body.data = [flow_id |-> FlowId(1), modified_response |-> ModContent]
    /\ pc[1] = "waiting"
    /\ req.pre = OriginalResponse(1)
    /\ response[1] =
         [status_code |-> 200,
          headers     |-> ("Content-Type" :> "application/json")
                              @@ ("X-Flow" :> "flow-1"),
          content     |-> <<195, 169>>]

\* C3: in debug mode a hook gets past its wait only after a resume request
\* for its id went through the control server (no timeout, no other way
\* out), and in recording and mockk mode no flow is ever intercepted,
\* registered or waiting.
C3_SuspendedUntilResume ==
    \A f \in Flows :
        /\ (mode = "debug" /\ pc[f] \in {"cleanup", "done"}) => resume_count[f] = 1
        /\ (pc[f] = "waiting" /\ resume_count[f] = 0) =>
               (intercepted[f] /\ resume_event[f] = "clear")
        /\ mode # "debug" =>
               /\ pc[f] # "waiting"
               /\ ~intercepted[f]
               /\ intercepted_flows = EmptyDict

\* A debug-mode hook has returned after one resume.
C3_Witness ==
    /\ mode = "debug"
    /\ pc[1] = "done" /\ resume_count[1] = 1
    /\ pc[2] = "waiting" /\ resume_count[2] = 0

\* C4: a resume request for an id that was never put into the registry is
\* answered 404 and none of its steps changes the registry, a response or a
\* suspension.
C4_UnknownIdNotFound ==
    /\ []((req.pc = "respond" /\ req.path = "/resume" /\ req.body.json
             /\ RequestId # "" /\ RequestId \notin EverInserted)
            => req.code = 404)
    /\ [][(ResumeStep /\ StepId \notin EverInserted) =>
            /\ intercepted_flows' = intercepted_flows
            /\ \A f \in Flows : FlowState(f)' = FlowState(f)]_vars

\* An unknown id was refused while a flow waits in the registry.
C4_Witness ==
    /\ req.pc = "respond" /\ req.path = "/resume" /\ req.code = 404
    /\ RequestId = UnknownId
    /\ pc[1] = "waiting" /\ FlowId(1) \in DOMAIN intercepted_flows

\* C5: once a resume request for a suspended id was answered "resumed",
\* every later resume request for that id is answered 404 and changes
\* nothing in the transaction's response, also while the woken unit has not
\* run yet.
C5_ResumedOnceThenNotFound ==
    (req.path = "/resume" /\ RequestId \in acked
        /\ pc[FlowOf(RequestId)] = "waiting") =>
        /\ req.pc = "respond" => req.code = 404
        /\ req.flow # NoFlow => response[req.flow] = req.pre

PublishedOnceUnpaused(f) ==
    /\ Len(published[f]) = 1
    /\ published[f][1].paused = FALSE
    /\ published[f][1].flow_id = FlowId(f)
    /\ published[f][1].status_code = response[f].status_code
    /\ published[f][1].headers = response[f].headers
    /\ published[f][1].mock_applied = Get(metadata[f], "mock_applied", FALSE)

\* C7: in recording mode a hook never intercepts, registers or waits, and
\* once send_to_plugin was called there is exactly one publish attempt for
\* the flow, with paused = FALSE, up to and after the hook's return.
C7_RecordingPublishesOnce ==
    mode = "recording" =>
        \A f \in Flows :
            /\ pc[f] \in {"start", "sending", "sent", "unsent", "done"}
            /\ ~intercepted[f] /\ resume_event[f] = "none"
            /\ intercepted_flows = EmptyDict
            /\ pc[f] = "start" => published[f] = <<>>
            /\ pc[f] # "start" =>
                   /\ PublishedOnceUnpaused(f)
                   /\ response[f] = OriginalResponse(f)

\* A recording-mode hook has returned after a publish attempt that failed.
C7_Witness ==
    /\ mode = "recording"
    /\ pc[1] = "done" /\ Len(published[1]) = 1
    /\ pc[2] = "unsent"

\* C8: in mockk mode, once a rule was applied, exactly the fields the rule
\* holds have overwritten the upstream response (headers key by key, the
\* other headers kept) and the metadata records mock_applied with the
\* rule's name and id; only an ill-typed rule stops the application.
C8_MockAppliesPresentFields ==
    \A f \in Flows :
        /\ (mode = "mockk" /\ mock_data[f] # PyNone
               /\ pc[f] \in {"publish", "sending", "sent", "unsent", "done"}) =>
             LET m   == mock_data[f]
                 h   == IF Has(m, "headers") THEN m["headers"].map ELSE EmptyDict
                 now == response[f]
                 was == OriginalResponse(f)
             IN  /\ now.status_code =
                        IF Has(m, "status_code") THEN m["status_code"]
                        ELSE was.status_code
                 /\ DOMAIN now.headers = (DOMAIN was.headers) \cup (DOMAIN h)
                 /\ \A k \in DOMAIN now.headers :
                        now.headers[k] =
                            IF k \in DOMAIN h THEN h[k] ELSE was.headers[k]
                 /\ now.content =
                        IF Has(m, "content") THEN EncodeUtf8(m["content"].chars)
                        ELSE was.content
                 /\ metadata[f]["mock_applied"] = TRUE
                 /\ metadata[f]["mock_rule_name"] =
                        (IF Has(m, "rule_name") THEN m["rule_name"] ELSE "Unknown")
                 /\ metadata[f]["mock_rule_id"] =
                        (IF Has(m, "rule_id") THEN m["rule_id"] ELSE "")
        /\ pc[f] = "raised" => ~WellTyped(mock_data[f])

\* The rule {status_code: 404, headers: {X-Mock: 1}} on an upstream 200:
\* status 404, X-Mock added, the other headers and the body kept.
C8_Witness ==
    /\ mode = "mockk"
    /\ pc[1] = "done" /\ mock_data[1] = RuleStatusHeaders
    /\ response[1] =
         [status_code |-> 404,
          headers     |-> ("Content-Type" :> "text/plain")
                              @@ ("X-Flow" :> "flow-1") @@ ("X-Mock" :> "1"),
          content     |-> <<49>>]
    /\ metadata[1] =
         [mock_applied |-> TRUE, mock_rule_name |-> "not found",
          mock_rule_id |-> "r1"]

\* C9: in mockk mode a flow is never suspended, and whatever the lookup
\* gave, when the hook is over exactly one snapshot was published, with
\* paused = FALSE and showing the response after the mock was applied; a
\* lookup that gave no rule leaves the response and the metadata as they
\* were.
C9_MockkAlwaysPublishesOnce ==
    mode = "mockk" =>
        \A f \in Flows :
            /\ pc[f] # "waiting" /\ ~intercepted[f]
            /\ intercepted_flows = EmptyDict
            /\ Len(published[f]) <= 1
            /\ (pc[f] # "start" /\ mock_data[f] = PyNone) =>
                   (response[f] = OriginalResponse(f) /\ metadata[f] = EmptyDict)
            /\ pc[f] \in {"done", "raised"} => PublishedOnceUnpaused(f)

\* The ids inserted as pending whose resume was not answered "resumed" yet.
PendingIds == EverInserted \ acked

\* Every registered flow is suspended: its hook is at its wait.
AllRegisteredWait ==
    \A f \in Flows : FlowId(f) \in DOMAIN intercepted_flows => pc[f] = "waiting"

\* C10: with k flows inserted as pending and suspended, /status reports the
\* registry size k, and once resumes for some of them were answered
\* "resumed" it reports k minus their number and lists none of their ids.
C10_StatusCountsPending ==
    /\ [][(req.pc = "status_count" /\ req'.pc = "status_keys" /\ AllRegisteredWait)
            => req'.count = Cardinality(PendingIds)]_vars
    /\ [][(req.pc = "status_keys" /\ req'.pc = "respond" /\ AllRegisteredWait)
            => req'.keys = PendingIds]_vars

\* The request of a control-server step, and whether a /resume body is
\* malformed: not JSON, or without a flow_id (or with an empty one).
StepBody == (IF req.pc = "idle" THEN req' ELSE req).body

MalformedBody(b) == ~b.json \/ ~Has(b.data, "flow_id") \/ b.data["flow_id"] = ""

\* C11: a resume request whose body is not JSON is answered 500, one whose
\* flow_id is missing or empty is answered 400, and no step of such a
\* request changes the registry, a response or a suspension.
C11_MalformedResumeRejected ==
    /\ []((req.path = "/resume" /\ MalformedBody(req.body)) =>
            /\ req.pc = "respond"
            /\ req.code = IF req.body.json THEN 400 ELSE 500)
    /\ [][(ResumeStep /\ MalformedBody(StepBody)) =>
            /\ intercepted_flows' = intercepted_flows
            /\ \A f \in Flows : FlowState(f)' = FlowState(f)]_vars

\* A body without flow_id was refused with 400 while a flow waits in the
\* registry, unresumed.
C11_Witness ==
    /\ req.pc = "respond" /\ req.path = "/resume" /\ req.code = 400
    /\ req.body = JsonBody(EmptyDict)
    /\ pc[1] = "waiting" /\ resume_count[1] = 0
    /\ DOMAIN intercepted_flows = {FlowId(1)}

\* C12: for one id the mutations of a resume request come before the
\* signal and the signal before the unit's continuation: the unit goes on
\* only once the signal was given, and the control server writes nothing
\* to a flow's response once the signal of that flow has fired.
C12_NoWriteAfterSignal ==
    /\ [](\A f \in Flows :
            (mode = "debug" /\ pc[f] \in {"cleanup", "done"}) => resume_count[f] >= 1)
    /\ [][\A f \in Flows :
            (mode = "debug" /\ response[f]' # response[f])
                => resume_event[f] # "set"]_vars

\* C13: GET /mock-match... without a method or a url is answered 400; else
\* it is answered 200 with the plugin's body when the plugin answered 200,
\* and 404 with an empty object whenever the plugin answered otherwise or
\* could not be reached (never 500); no step of the request changes the
\* registry or a flow.
C13_MockMatchDegradesToNotFound ==
    /\ []((req.pc = "respond" /\ req.path \in MockMatchTargets) =>
            IF req.path # "/mock-match?method=GET&url=u"
            THEN req.code = 400 /\ req.plugin.outcome = "none"
            ELSE IF req.plugin.outcome = "ok"
                 THEN req.code = 200 /\ req.reply = req.plugin.data
                 ELSE /\ req.plugin.outcome \in {"non200", "error"}
                      /\ req.code = 404 /\ req.reply = EmptyDict)
    /\ [][(req' # req
              /\ (IF req.pc = "idle" THEN req' ELSE req).path \in MockMatchTargets) =>
            /\ intercepted_flows' = intercepted_flows
            /\ \A f \in Flows : FlowState(f)' = FlowState(f)]_vars

\* The plugin could not be reached and the request was answered 404 with
\* an empty object, while a flow waits in the registry.
C13_Witness ==
    /\ req.pc = "respond" /\ req.path = "/mock-match?method=GET&url=u"
    /\ req.plugin.outcome = "error"
    /\ req.code = 404 /\ req.reply = EmptyDict
    /\ pc[1] = "waiting" /\ DOMAIN intercepted_flows = {FlowId(1)}

\* C14: when the control server could not bind its port, no request is
\* ever accepted and no flow resumed; a debug-mode flow never gets past
\* its wait, and in recording and mockk mode no flow is suspended and every
\* hook that is over has published its flow once, unpaused.
C14_BindFailureDegrades ==
    server = "failed" =>
        /\ req = Idle /\ nreq = 0 /\ acked = {}
        /\ \A f \in Flows :
              /\ resume_count[f] = 0
              /\ mode = "debug" => pc[f] \notin {"cleanup", "done"}
              /\ mode \in {"recording", "mockk"} =>
                    /\ ~intercepted[f] /\ pc[f] # "waiting"
                    /\ pc[f] \in {"done", "raised"} => PublishedOnceUnpaused(f)

\* A unit suspended on its resume signal, which was not given yet.
Suspended(f) == pc[f] = "waiting" /\ resume_event[f] = "clear"

\* A step of the handler of the request in service.
ControlStep ==
    \/ handle_resume_check
    \/ handle_resume_lookup
    \/ handle_resume_status
    \/ handle_resume_headers
    \/ handle_resume_content
    \/ handle_resume_resume
    \/ handle_status_count
    \/ handle_status_keys
    \/ \E answer \in PluginAnswers : handle_mock_match(answer)
    \/ respond

\* C15: while units are suspended none of them holds the event loop, the
\* control server can accept a resume or a status request and take every
\* step of the request it serves, and the hook of another flow can start,
\* insert, publish and suspend.
C15_SuspendedUnitsBlockNothing ==
    (\E f \in Flows : Suspended(f)) =>
        /\ \A f \in Flows : pc[f] = "waiting" => loop # f
        /\ (server = "serving" /\ req.pc = "idle" /\ nreq < MaxRequests) =>
              /\ \A f \in Flows :
                    ENABLED do_POST("/resume", JsonBody([flow_id |-> FlowId(f)]))
              /\ ENABLED do_GET("/status")
        /\ req.pc # "idle" => ENABLED ControlStep
        /\ \A g \in Flows :
              /\ (pc[g] = "start" /\ loop = NoFlow
                     /\ \A h \in Flows : h < g => pc[h] # "start")
                    => ENABLED response_debug_intercept(g)
              /\ pc[g] = "insert" => ENABLED response_debug_insert(g)
              /\ pc[g] = "publish" => ENABLED response_debug_publish(g)
              /\ pc[g] = "sending" => ENABLED send_request(g, "ok")
              /\ (pc[g] \in {"sent", "unsent"} /\ loop = NoFlow)
                    => ENABLED response_debug_wait(g)

\* While the first flow is suspended the second has started and published
\* and a status request that counted both is being answered.
C15_Witness ==
    /\ Suspended(1) /\ resume_count[1] = 0
    /\ pc[2] = "sending" /\ Len(published[2]) = 1
    /\ req.pc = "respond" /\ req.path = "/status" /\ req.code = 200
    /\ req.count = 2

C17_ResumeSeesRegistryAtomically ==
    (req.pc = "respond" /\ req.path = "/resume" /\ ~MalformedBody(req.body)
        /\ (Has(req.body.data, "modified_response") => WellTyped(Mod)))
      => req.code \in {200, 404}

C19_RejectedResumeLeavesFlow ==
    (req.pc = "respond" /\ req.path = "/resume" /\ req.code \in {400, 500}
        /\ req.flow # NoFlow /\ pc[req.flow] = "waiting")
      => /\ response[req.flow] = req.pre
         /\ Suspended(req.flow)

\* C20: a publish is attempted once per flow and its failure changes
\* nothing but the log: the hook goes on from a failed publish as from a
\* successful one. In recording and mockk mode it returns with the response
\* as it was; in debug mode the flow is in the registry, the hook can go on
\* to its wait and suspends there, registered and resumable.
C20_FailedPublishSwallowed ==
    /\ [](\A f \in Flows : Len(published[f]) <= 1)
    /\ [](\A f \in Flows :
            (mode = "debug" /\ pc[f] = "unsent") =>
                /\ FlowId(f) \in DOMAIN intercepted_flows
                /\ intercepted_flows[FlowId(f)] = f
                /\ loop = NoFlow => ENABLED response_debug_wait(f))
    /\ [][\A f \in Flows :
            (pc[f] = "sending" /\ pc'[f] # "sending") =>
                /\ pc'[f] \in {"sent", "unsent"}
                /\ response' = response /\ metadata' = metadata
                /\ intercepted' = intercepted /\ published' = published
                /\ intercepted_flows' = intercepted_flows]_vars
    /\ [][\A f \in Flows :
            (pc[f] = "unsent" /\ pc'[f] # "unsent") =>
                /\ response'[f] = response[f]
                /\ IF mode = "debug"
                   THEN /\ pc'[f] = IF intercepted[f] THEN "waiting" ELSE "cleanup"
                        /\ FlowId(f) \in DOMAIN intercepted_flows'
                        /\ pc'[f] = "waiting" =>
                              (intercepted'[f] /\ resume_event'[f] = "clear")
                   ELSE pc'[f] = "done"]_vars

\* In debug mode the paused snapshot of the first flow could not be
\* delivered: the flow is registered and still marked intercepted.
C20_Witness ==
    /\ mode = "debug" /\ pc[1] = "unsent"
    /\ Len(published[1]) = 1 /\ published[1][1].paused
    /\ intercepted[1] /\ resume_count[1] = 0
    /\ DOMAIN intercepted_flows = {FlowId(1)}

\* The hook has inserted its entry and has not reached its wait: the
\* paused snapshot is about to be published or is in flight.
BeforeWait(f) ==
    mode = "debug" /\ pc[f] \in {"publish", "sending", "sent", "unsent"}

PausedSnapshotOut(f) ==
    mode = "debug" /\ published[f] # <<>> /\ published[f][1].paused

\* C22: in debug mode the flow was marked intercepted (the mark is still
\* there unless a resume already took it away) and its entry is in the
\* registry when the paused snapshot is handed to the publisher, and
\* the entry stays, bound to the flow, as long as the flow was not
\* resumed; so the membership test of a resume request fails (404) only
\* for a flow whose snapshot was not handed out yet or which was resumed
\* before.
C22_RegisteredBeforeSnapshot ==
    /\ [][\A f \in Flows :
            (mode = "debug" /\ published'[f] # published[f]) =>
                /\ intercepted[f] \/ resume_count[f] >= 1
                /\ FlowId(f) \in DOMAIN intercepted_flows
                /\ intercepted_flows[FlowId(f)] = f
                /\ published'[f] = <<Snapshot(f, TRUE)>>]_vars
    /\ [](\A f \in Flows :
            (PausedSnapshotOut(f) /\ resume_count[f] = 0) =>
                /\ FlowId(f) \in DOMAIN intercepted_flows
                /\ intercepted_flows[FlowId(f)] = f
                /\ intercepted[f])
    /\ [][(req.pc = "check" /\ req'.pc = "respond" /\ req'.code = 404
              /\ RequestId \in FlowIds) =>
            \/ ~PausedSnapshotOut(FlowOf(RequestId))
            \/ resume_count[FlowOf(RequestId)] >= 1]_vars

\* The paused snapshot of the first flow is out and was delivered, and the
\* first resume request for its id has passed the membership test.
C22_Witness ==
    /\ PausedSnapshotOut(1) /\ pc[1] = "sent" /\ resume_count[1] = 0
    /\ nreq = 1 /\ req.path = "/resume" /\ req.pc = "lookup"
    /\ RequestId = FlowId(1)
    /\ FlowId(1) \in DOMAIN intercepted_flows

====
